---- MODULE Spec2Model ----
(***************************************************************************)
(* Model of the twitter95 database API (src/backend/database/api.py).      *)
(*                                                                         *)
(* The committed contents of the PostgreSQL database are the variables     *)
(* users, tweets, followers and bios.  Every request handler opens its own *)
(* session (new_session), so every request is a process of its own with a  *)
(* program counter that advances at each awaited database call.  The       *)
(* engine runs at READ COMMITTED: a statement reads the committed tables,  *)
(* and what a session has written stays private to the session until its   *)
(* commit.                                                                 *)
(***************************************************************************)
EXTENDS Integers, Sequences, FiniteSets, TLC

\* ---------------------------------------------------------------- bounds
MaxUsers == 3       \* user ids range over 1..MaxUsers
MaxTweets == 3      \* tweet ids range over 1..MaxTweets
MaxTime == 2        \* fake times range over 1..MaxTime, cutoffs over 0..MaxTime
MaxLimit == 2       \* the limit parameter ranges over 1..MaxLimit
MaxRequests == 2    \* requests received in one behaviour

\* SQL NULL in the nullable column Tweet.fake_time
NULL == -1

UserIds == 1..MaxUsers
TweetIds == 1..MaxTweets
FakeTimes == 1..MaxTime
Cutoffs == 0..MaxTime
Limits == 1..MaxLimit
\* the user_name of a creation payload: one a seed user has, one that is free
UserNames == {"alice", "carol"}
\* the ids a query is asked about: the two seed users and an id with no row
QueryUserIds == {1, 2, MaxUsers}

\* The rows the database holds before the first request: two users who
\* follow each other or not, with or without a bio.
SeedUsers ==
    { [user_id |-> 1, user_name |-> "alice"],
      [user_id |-> 2, user_name |-> "bob"] }

VARIABLES
    users,          \* committed rows of table users: [user_id, user_name]
    tweets,         \* committed rows of table tweets: [tweet_id, author_id, fake_time]
    followers,      \* committed rows of followers_association: <<follower_id, followed_id>>
    bios,           \* committed rows of table bios, each the user_id of its owner
    bio_fk,         \* whether bios.user_id is an enforced foreign key
    user_id_seq,    \* last value of the sequence behind users.user_id
    tweet_id_seq,   \* last value of the sequence behind tweets.tweet_id
    reqs,           \* the requests received so far, each with its handler's state
    resp            \* the response of the last timeline/posts query

vars == <<users, tweets, followers, bios, bio_fk, user_id_seq, tweet_id_seq, reqs, resp>>
tables == <<users, tweets, followers, bios>>

Min(a, b) == IF a <= b THEN a ELSE b

\* ------------------------------------------------- SQL three-valued logic
\* A comparison with NULL is unknown; WHERE keeps the rows whose predicate
\* is true.
sql_le(a, b) == IF a = NULL \/ b = NULL THEN "unknown" ELSE IF a <= b THEN "true" ELSE "false"

sql_is_null(a) == IF a = NULL THEN "true" ELSE "false"

or_(p, q) ==
    IF p = "true" \/ q = "true" THEN "true"
    ELSE IF p = "false" /\ q = "false" THEN "false"
    ELSE "unknown"

\* or_(Tweet.fake_time <= fake_time), with the IS NULL branch left out
time_filter_no_null(t, fake_time) == sql_le(t.fake_time, fake_time) = "true"

\* or_(Tweet.fake_time <= fake_time, Tweet.fake_time == None)
time_filter(t, fake_time) ==
    or_(sql_le(t.fake_time, fake_time), sql_is_null(t.fake_time)) = "true"

\* the subquery selecting follower_id where followed_id == user_id
followed_users_reversed(user_id) ==
    { e[1] : e \in { f \in followers : f[2] = user_id } }

\* select(followers_association.c.followed_id).where(follower_id == user_id)
followed_users(user_id) ==
    { e[2] : e \in { f \in followers : f[1] = user_id } }

\* ---------------------------------------------------------------- ORDER BY
\* PostgreSQL sorts NULL as larger than every value: ASC puts it last and
\* DESC puts it first.
asc_before(a, b) == a # b /\ (b = NULL \/ (a # NULL /\ a < b))

\* sort(column): asc(column) or desc(column)
sort_before(ascending, a, b) == IF ascending THEN asc_before(a, b) ELSE asc_before(b, a)

\* order_by(sort(fake_time), tweet_id): the second key always ascending
row_before_id_asc(ascending, s, t) ==
    \/ sort_before(ascending, s.fake_time, t.fake_time)
    \/ /\ s.fake_time = t.fake_time
       /\ asc_before(s.tweet_id, t.tweet_id)

\* order_by(sort(Tweet.fake_time), sort(Tweet.tweet_id))
row_before(ascending, s, t) ==
    \/ sort_before(ascending, s.fake_time, t.fake_time)
    \/ /\ s.fake_time = t.fake_time
       /\ sort_before(ascending, s.tweet_id, t.tweet_id)

RECURSIVE order_by(_, _)
order_by(rows, ascending) ==
    IF rows = {} THEN <<>>
    ELSE LET first == CHOOSE t \in rows :
                        \A o \in rows \ {t} : row_before(ascending, t, o)
         IN  <<first>> \o order_by(rows \ {first}, ascending)

\* .limit(limit)
limit_(rows, limit) == SubSeq(rows, 1, Min(limit, Len(rows)))

\* ------------------------------------------------------------ the queries
\* GET /timeline/: one SELECT over the committed tables
timeline_query(user_id, fake_time, limit, ascending) ==
    limit_(order_by({ t \in tweets : /\ t.author_id \in followed_users(user_id)
                                     /\ time_filter(t, fake_time) },
                    ascending),
           limit)

\* GET /posts/: one SELECT over the committed tables
posts_query(user_id, fake_time, limit, ascending) ==
    limit_(order_by({ t \in tweets : /\ time_filter(t, fake_time)
                                     /\ t.author_id = user_id },
                    ascending),
           limit)

NoResp ==
    [op |-> "none", user_id |-> 0, fake_time |-> 0, limit |-> 0,
     ascending |-> FALSE, status |-> 0, result |-> <<>>]

read_timeline(user_id, fake_time, limit, ascending) ==
    /\ resp = NoResp
    /\ resp' = [op |-> "read_timeline", user_id |-> user_id, fake_time |-> fake_time,
                limit |-> limit, ascending |-> ascending, status |-> 200,
                result |-> timeline_query(user_id, fake_time, limit, ascending)]
    /\ UNCHANGED <<users, tweets, followers, bios, bio_fk, user_id_seq, tweet_id_seq, reqs>>

read_posts(user_id, fake_time, limit, ascending) ==
    /\ resp = NoResp
    /\ resp' = [op |-> "read_posts", user_id |-> user_id, fake_time |-> fake_time,
                limit |-> limit, ascending |-> ascending, status |-> 200,
                result |-> posts_query(user_id, fake_time, limit, ascending)]
    /\ UNCHANGED <<users, tweets, followers, bios, bio_fk, user_id_seq, tweet_id_seq, reqs>>

\* ------------------------------------------------ the schema's constraints
\* Tweet.author_id and both columns of followers_association are foreign
\* keys to users.user_id; tweet_id is the primary key of tweets.
\* what the tweet id i is used for: nothing (author 0), or a tweet of seed
\* user 1 or 2 with a fake time or none
TweetSlots ==
    { [author_id |-> 0, fake_time |-> NULL] }
        \cup [author_id : {1, 2}, fake_time : FakeTimes \cup {NULL}]

tweets_of(f) ==
    { [tweet_id |-> i, author_id |-> f[i].author_id, fake_time |-> f[i].fake_time] :
        i \in { j \in TweetIds : f[j].author_id # 0 } }

fk_tables_ok(us, tw, fo) ==
    LET ids == { u.user_id : u \in us }
    IN  /\ \A t \in tw : t.author_id \in ids
        /\ \A e \in fo : e[1] \in ids /\ e[2] \in ids

\* ------------------------------------------- the queries on a fixed database
\* A database the creation routes can have built over the seed users: user 1
\* follows user 2, or user 2 and itself, user 2 follows nobody, the tweet ids
\* 1..n are tweets of the two.  User id MaxUsers has no row.  A query
\* changes no table, so each behaviour answers one query.
InitQuery ==
    /\ users = SeedUsers
    /\ \E f \in [TweetIds -> TweetSlots] :
         /\ \A i \in TweetIds \ {1} : f[i].author_id # 0 => f[i - 1].author_id # 0
         /\ tweets = tweets_of(f)
    /\ followers \in { { <<1, 2>> }, { <<1, 1>>, <<1, 2>> } }
    /\ bios = {}
    /\ bio_fk = FALSE
    /\ user_id_seq = 2
    /\ tweet_id_seq = MaxTweets
    /\ reqs = <<>>
    /\ resp = NoResp

NextQuery ==
    \E user_id \in QueryUserIds, fake_time \in Cutoffs, limit \in Limits, ascending \in BOOLEAN :
        \/ read_timeline(user_id, fake_time, limit, ascending)
        \/ read_posts(user_id, fake_time, limit, ascending)

SpecQuery == InitQuery /\ [][NextQuery]_vars

\* ------------------------------------------------------------ the requests
\* One record per request received: the route (op), the handler's position
\* (pc), the request's parameters, the handler's local `user`/`tweet` object
\* (its primary key, 0 for None), what the session has deleted and not yet
\* committed, and the HTTP status and body once the handler is done.
new_request(op, user_id, user_name, fake_time) ==
    [op |-> op, pc |-> "start", user_id |-> user_id, user_name |-> user_name,
     fake_time |-> fake_time, user |-> 0, del_tweets |-> {}, del_edges |-> {},
     status |-> 0, result |-> {}]

Requests == 1..Len(reqs)

at(r, op, pc) == reqs[r].op = op /\ reqs[r].pc = pc

done(r, status) == [reqs[r] EXCEPT !.pc = "done", !.status = status]

\* select(models.sql.User).filter_by(user_id=user_id)
user_lookup(user_id) == { u \in users : u.user_id = user_id }

\* the unique constraint on users.user_name
user_name_free(user_name) == \A u \in users : u.user_name # user_name

\* no foreign key on tweets.author_id
fk_author_unchecked(author_id) == TRUE

\* the foreign key of tweets.author_id, checked when a tweet is inserted
fk_author_ok(author_id) == user_lookup(author_id) # {}

\* the foreign keys to users.user_id, checked when the row of user_id is
\* deleted: no row left in tw, fo or bios may reference it
fk_delete_ok(user_id, tw, fo) ==
    /\ \A t \in tw : t.author_id # user_id
    /\ \A e \in fo : e[1] # user_id /\ e[2] # user_id
    /\ bio_fk => user_id \notin bios

\* The router hands a request to its handler.
receive ==
    /\ Len(reqs) < MaxRequests
    /\ \E op \in {"create_user", "create_tweet", "delete_user", "read_user", "read_profile"} :
         \/ /\ op = "create_user"
            /\ \E user_name \in UserNames :
                 reqs' = Append(reqs, new_request(op, 0, user_name, NULL))
         \/ /\ op = "create_tweet"
            /\ \E author_id \in UserIds, fake_time \in {MaxTime, NULL} :
                 reqs' = Append(reqs, new_request(op, author_id, "", fake_time))
         \/ /\ op \in {"delete_user", "read_user", "read_profile"}
            /\ \E user_id \in UserIds :
                 reqs' = Append(reqs, new_request(op, user_id, "", NULL))
    /\ UNCHANGED <<users, tweets, followers, bios, bio_fk, user_id_seq, tweet_id_seq, resp>>

\* POST /users/: db.add(user); await db.commit().  The INSERT draws the next
\* value of the sequence, also when the unique constraint then rejects it.
create_user_commit(r) ==
    /\ at(r, "create_user", "start")
    /\ user_id_seq < MaxUsers
    /\ user_id_seq' = user_id_seq + 1
    /\ IF user_name_free(reqs[r].user_name)
       THEN /\ users' = users \cup { [user_id |-> user_id_seq + 1,
                                      user_name |-> reqs[r].user_name] }
            /\ reqs' = [reqs EXCEPT ![r].pc = "refresh", ![r].user = user_id_seq + 1]
       ELSE /\ users' = users
            /\ reqs' = [reqs EXCEPT ![r] = done(r, 500)]
    /\ UNCHANGED <<tweets, followers, bios, bio_fk, tweet_id_seq, resp>>

\* await db.refresh(user); return UserRead(**user.__dict__)
create_user_refresh(r) ==
    /\ at(r, "create_user", "refresh")
    /\ reqs' = [reqs EXCEPT ![r] =
                  IF user_lookup(reqs[r].user) = {}
                  THEN done(r, 500)
                  ELSE [done(r, 200) EXCEPT !.result = user_lookup(reqs[r].user)]]
    /\ UNCHANGED <<users, tweets, followers, bios, bio_fk, user_id_seq, tweet_id_seq, resp>>

\* POST /tweet/: db.add(tweet); await db.commit()
create_tweet_commit(r) ==
    /\ at(r, "create_tweet", "start")
    /\ tweet_id_seq < MaxTweets
    /\ tweet_id_seq' = tweet_id_seq + 1
    /\ IF fk_author_ok(reqs[r].user_id)
       THEN /\ tweets' = tweets \cup { [tweet_id |-> tweet_id_seq + 1,
                                        author_id |-> reqs[r].user_id,
                                        fake_time |-> reqs[r].fake_time] }
            /\ reqs' = [reqs EXCEPT ![r].pc = "refresh", ![r].user = tweet_id_seq + 1]
       ELSE /\ tweets' = tweets
            /\ reqs' = [reqs EXCEPT ![r] = done(r, 500)]
    /\ UNCHANGED <<users, followers, bios, bio_fk, user_id_seq, resp>>

\* the handler returns the object it was given, without its generated key
create_tweet_returns_payload(r) ==
    /\ at(r, "create_tweet", "refresh")
    /\ reqs' = [reqs EXCEPT ![r] =
                  [done(r, 200) EXCEPT !.result =
                     { [tweet_id |-> 0, author_id |-> reqs[r].user_id,
                        fake_time |-> reqs[r].fake_time] }]]
    /\ UNCHANGED <<users, tweets, followers, bios, bio_fk, user_id_seq, tweet_id_seq, resp>>

\* await db.refresh(tweet); return tweet
create_tweet_refresh(r) ==
    /\ at(r, "create_tweet", "refresh")
    /\ LET row == { t \in tweets : t.tweet_id = reqs[r].user }
       IN  reqs' = [reqs EXCEPT ![r] =
                      IF row = {} THEN done(r, 500)
                      ELSE [done(r, 200) EXCEPT !.result = row]]
    /\ UNCHANGED <<users, tweets, followers, bios, bio_fk, user_id_seq, tweet_id_seq, resp>>

\* GET /users/{user_id}/: 404 if user is None, else the row
read_user_status(user_id) == IF user_lookup(user_id) = {} THEN 404 ELSE 200

read_user(r) ==
    /\ at(r, "read_user", "start")
    /\ reqs' = [reqs EXCEPT ![r] =
                  [done(r, read_user_status(reqs[r].user_id))
                     EXCEPT !.result = user_lookup(reqs[r].user_id)]]
    /\ UNCHANGED <<users, tweets, followers, bios, bio_fk, user_id_seq, tweet_id_seq, resp>>

\* GET /profile/{user_id}/: the SELECT of the user.  With no row the handler
\* evaluates `FastAPI.HTTPException`, an attribute the class FastAPI does not
\* have: the AttributeError leaves the handler and the request ends in 500.
read_profile_select(r) ==
    /\ at(r, "read_profile", "start")
    /\ reqs' = [reqs EXCEPT ![r] =
                  IF user_lookup(reqs[r].user_id) = {}
                  THEN done(r, 500)
                  ELSE [reqs[r] EXCEPT !.pc = "bio", !.user = reqs[r].user_id]]
    /\ UNCHANGED <<users, tweets, followers, bios, bio_fk, user_id_seq, tweet_id_seq, resp>>

\* bio = await user.awaitable_attrs.bio, then the profile or the placeholder
read_profile_bio(r) ==
    /\ at(r, "read_profile", "bio")
    /\ reqs' = [reqs EXCEPT ![r] =
                  [done(r, 200) EXCEPT !.result =
                     { [user_id |-> reqs[r].user,
                        bio |-> IF reqs[r].user \in bios THEN "bio" ELSE "placeholder"] }]]
    /\ UNCHANGED <<users, tweets, followers, bios, bio_fk, user_id_seq, tweet_id_seq, resp>>

\* the handler goes on to the deletions whether or not the user exists
delete_user_select_unchecked(r) ==
    /\ at(r, "delete_user", "start")
    /\ reqs' = [reqs EXCEPT ![r].pc = "del_tweets", ![r].user = reqs[r].user_id]
    /\ UNCHANGED <<users, tweets, followers, bios, bio_fk, user_id_seq, tweet_id_seq, resp>>

\* DELETE /users/{user_id}/: the SELECT of the user and the 404
delete_user_select(r) ==
    /\ at(r, "delete_user", "start")
    /\ reqs' = [reqs EXCEPT ![r] =
                  IF user_lookup(reqs[r].user_id) = {}
                  THEN done(r, 404)
                  ELSE [reqs[r] EXCEPT !.pc = "del_tweets", !.user = reqs[r].user_id]]
    /\ UNCHANGED <<users, tweets, followers, bios, bio_fk, user_id_seq, tweet_id_seq, resp>>

\* the DELETE of the tweets committed on its own, outside the transaction
delete_user_tweets_autocommit(r) ==
    /\ at(r, "delete_user", "del_tweets")
    /\ tweets' = { t \in tweets : t.author_id # reqs[r].user_id }
    /\ reqs' = [reqs EXCEPT ![r].pc = "del_following"]
    /\ UNCHANGED <<users, followers, bios, bio_fk, user_id_seq, tweet_id_seq, resp>>

\* delete(Tweet).where(Tweet.author_id == user_id), inside the session's
\* transaction: the rows it matched go when the transaction commits
delete_user_tweets(r) ==
    /\ at(r, "delete_user", "del_tweets")
    /\ reqs' = [reqs EXCEPT ![r].pc = "del_following",
                            ![r].del_tweets = { t \in tweets : t.author_id = reqs[r].user_id }]
    /\ UNCHANGED <<users, tweets, followers, bios, bio_fk, user_id_seq, tweet_id_seq, resp>>

\* delete(followers_association).where(follower_id == user_id)
delete_user_following(r) ==
    /\ at(r, "delete_user", "del_following")
    /\ reqs' = [reqs EXCEPT ![r].pc = "del_followed",
                            ![r].del_edges = { e \in followers : e[1] = reqs[r].user_id }]
    /\ UNCHANGED <<users, tweets, followers, bios, bio_fk, user_id_seq, tweet_id_seq, resp>>

\* delete(followers_association).where(followed_id == user_id)
delete_user_followed(r) ==
    /\ at(r, "delete_user", "del_followed")
    /\ reqs' = [reqs EXCEPT ![r].pc = "commit",
                            ![r].del_edges = reqs[r].del_edges \cup
                                { e \in followers : e[2] = reqs[r].user_id }]
    /\ UNCHANGED <<users, tweets, followers, bios, bio_fk, user_id_seq, tweet_id_seq, resp>>

\* the commit without db.delete(user): the user row stays
delete_user_commit_keeps_user(r) ==
    /\ at(r, "delete_user", "commit")
    /\ tweets' = tweets \ reqs[r].del_tweets
    /\ followers' = followers \ reqs[r].del_edges
    /\ reqs' = [reqs EXCEPT ![r] = done(r, 200)]
    /\ UNCHANGED <<users, bios, bio_fk, user_id_seq, tweet_id_seq, resp>>

\* await db.delete(user); await db.commit(): the flush deletes the user row,
\* the foreign keys are checked against what is committed by then, and the
\* session's deletions become visible together.  A violation raises, the
\* session closes without a commit and nothing of it is applied.
delete_user_commit(r) ==
    /\ at(r, "delete_user", "commit")
    /\ LET tw == tweets \ reqs[r].del_tweets
           fo == followers \ reqs[r].del_edges
       IN  IF user_lookup(reqs[r].user) = {}
           THEN \* the row went with a concurrent deletion: no row to delete
                /\ tweets' = tw
                /\ followers' = fo
                /\ users' = users
                /\ reqs' = [reqs EXCEPT ![r] = done(r, 200)]
           ELSE IF fk_delete_ok(reqs[r].user, tw, fo)
           THEN /\ tweets' = tw
                /\ followers' = fo
                /\ users' = users \ user_lookup(reqs[r].user)
                /\ reqs' = [reqs EXCEPT ![r] = done(r, 200)]
           ELSE /\ UNCHANGED <<users, tweets, followers>>
                /\ reqs' = [reqs EXCEPT ![r] = done(r, 500)]
    /\ UNCHANGED <<bios, bio_fk, user_id_seq, tweet_id_seq, resp>>

\* A statement of the transaction fails (the session is chosen as the victim
\* of a deadlock on the follower rows, the connection is lost): the exception
\* leaves `async with new_session()`, which closes the session uncommitted.
delete_user_fail(r) ==
    /\ reqs[r].op = "delete_user"
    /\ reqs[r].pc \in {"del_tweets", "del_following", "del_followed", "commit"}
    /\ reqs' = [reqs EXCEPT ![r] = done(r, 500)]
    /\ UNCHANGED <<users, tweets, followers, bios, bio_fk, user_id_seq, tweet_id_seq, resp>>

\* The database before the first request: the seed users, one tweet of
\* user 1, the two following each other or not, user 1 with or without a bio.
Init ==
    /\ users = SeedUsers
    /\ tweets = { [tweet_id |-> 1, author_id |-> 1, fake_time |-> 1] }
    /\ followers \in { {}, { <<1, 2>>, <<2, 1>> } }
    /\ bios \in { {}, {1} }
    /\ bio_fk \in (IF bios = {} THEN {FALSE} ELSE BOOLEAN)
    /\ user_id_seq = 2
    /\ tweet_id_seq = 1
    /\ reqs = <<>>
    /\ resp = NoResp

Next ==
    \/ receive
    \/ \E r \in Requests :
         \/ create_user_commit(r)
         \/ create_user_refresh(r)
         \/ create_tweet_commit(r)
         \/ create_tweet_refresh(r)
         \/ read_user(r)
         \/ read_profile_select(r)
         \/ read_profile_bio(r)
         \/ delete_user_select(r)
         \/ delete_user_tweets(r)
         \/ delete_user_following(r)
         \/ delete_user_followed(r)
         \/ delete_user_commit(r)
         \/ delete_user_fail(r)

Spec == Init /\ [][Next]_vars

\* ------------------------------------------------- properties of the queries
Elements(seq) == { seq[i] : i \in 1..Len(seq) }

IsQuery == resp.op \in {"read_timeline", "read_posts"}

\* the authors the query asks for
InScope(t) ==
    IF resp.op = "read_timeline"
    THEN <<resp.user_id, t.author_id>> \in followers
    ELSE t.author_id = resp.user_id

\* the tweets a query is to choose from
Qualifying ==
    { t \in tweets : InScope(t) /\ (t.fake_time = NULL \/ t.fake_time <= resp.fake_time) }

\* (fake_time, tweet_id) as a pair of numbers, NULL the largest fake time
KeyLess(s, t) ==
    LET ks == IF s.fake_time = NULL THEN MaxTime + 1 ELSE s.fake_time
        kt == IF t.fake_time = NULL THEN MaxTime + 1 ELSE t.fake_time
    IN  ks < kt \/ (ks = kt /\ s.tweet_id < t.tweet_id)

\* s comes before t in the direction the query asked for
Precedes(s, t) == IF resp.ascending THEN KeyLess(s, t) ELSE KeyLess(t, s)

\* C1: every tweet read_timeline returns is a tweet of a user the queried
\* user follows, with fake_time <= cutoff or NULL; a user who follows nobody
\* or has no row gets the empty list with status 200.
C1_TimelineFollowedAndCutoff ==
    resp.op = "read_timeline" =>
        /\ \A t \in Elements(resp.result) :
             /\ t \in tweets
             /\ \E e \in followers : e[1] = resp.user_id /\ e[2] = t.author_id
             /\ (t.fake_time = NULL \/ t.fake_time <= resp.fake_time)
        /\ ( \/ \A e \in followers : e[1] # resp.user_id
             \/ \A u \in users : u.user_id # resp.user_id )
           => (resp.result = <<>> /\ resp.status = 200)

\* A follows B, B has tweets at T1 < T2, and the timeline of A at T1 is the
\* T1 tweet alone.
C1_Witness ==
    /\ resp.op = "read_timeline" /\ resp.user_id = 1 /\ resp.fake_time = 1
    /\ ~resp.ascending
    /\ <<1, 2>> \in followers
    /\ \E s, t \in tweets :
         /\ s.author_id = 2 /\ s.fake_time = 1
         /\ t.author_id = 2 /\ t.fake_time = 2
         /\ resp.result = <<s>>
         /\ resp.limit > 1

\* C2 as stated: every tweet with fake_time NULL of the queried user
\* (read_posts) or of a followed user (read_timeline) is in the returned list.
C2_NullAlwaysReturned ==
    IsQuery =>
        \A t \in tweets :
            (t.fake_time = NULL /\ InScope(t)) => t \in Elements(resp.result)

\* C2 amended: a tweet with fake_time NULL in the query's scope is in the
\* returned list exactly when fewer than `limit` qualifying tweets come
\* before it in the requested order, whatever the cutoff.
C2_NullReturnedWithinLimit ==
    IsQuery =>
        \A t \in tweets :
            (t.fake_time = NULL /\ InScope(t)) =>
                ( t \in Elements(resp.result)
                  <=> Cardinality({ q \in Qualifying : Precedes(q, t) }) < resp.limit )

\* A query with a cutoff before every fake time returns a NULL tweet, and
\* another leaves a NULL tweet out because of its limit.
C2_Witness ==
    /\ IsQuery /\ resp.fake_time = 0 /\ resp.limit > 0
    /\ \E t \in Elements(resp.result) : t.fake_time = NULL
    /\ \E t \in Qualifying \ Elements(resp.result) : t.fake_time = NULL

\* C8: the returned list is the first `limit` qualifying tweets in the order
\* of (fake_time, tweet_id), ascending or descending as asked, ties on
\* fake_time in the order of tweet_id in the same direction.
C8_SortedPrefix ==
    IsQuery =>
        /\ Len(resp.result) = Min(resp.limit, Cardinality(Qualifying))
        /\ Elements(resp.result) \subseteq Qualifying
        /\ \A i, j \in 1..Len(resp.result) :
             i < j => Precedes(resp.result[i], resp.result[j])
        /\ \A q \in Qualifying \ Elements(resp.result) :
             \A t \in Elements(resp.result) : Precedes(t, q)

\* A descending query cut by its limit whose first two tweets have the same
\* fake time.
C8_Witness ==
    /\ IsQuery /\ ~resp.ascending
    /\ Len(resp.result) = 2
    /\ Cardinality(Qualifying) > 2
    /\ resp.result[1].fake_time = resp.result[2].fake_time
    /\ resp.result[1].fake_time # NULL
    /\ resp.result[1].tweet_id > resp.result[2].tweet_id

\* ---------------------------------------------- properties of the requests
Finished(r, op, status) ==
    reqs[r].op = op /\ reqs[r].pc = "done" /\ reqs[r].status = status

C4_DeleteAtomic ==
    [][ /\ (tweets \ tweets' # {} \/ followers \ followers' # {} \/ users \ users' # {})
           => \E r \in Requests :
                LET u == reqs[r].user_id
                IN  /\ at(r, "delete_user", "commit")
                    /\ reqs'[r].pc = "done" /\ reqs'[r].status = 200
                    /\ tweets \ tweets' = { t \in tweets : t.author_id = u }
                    /\ followers \ followers' = { e \in followers : e[1] = u \/ e[2] = u }
                    /\ users \ users' = { row \in users : row.user_id = u }
        /\ \A r \in Requests :
             (reqs[r].op = "delete_user" /\ reqs[r].status = 0 /\ reqs'[r].status \in {404, 500})
                => UNCHANGED tables
      ]_vars

\* A delete_user that failed after its DELETE statements had matched rows:
\* the rows and the user are still there.
C4_Witness ==
    \E r \in Requests :
        /\ Finished(r, "delete_user", 500)
        /\ reqs[r].del_tweets # {} /\ reqs[r].del_tweets \subseteq tweets
        /\ reqs[r].del_edges # {} /\ reqs[r].del_edges \subseteq followers
        /\ user_lookup(reqs[r].user_id) # {}

\* C5: read_profile for a user_id with no user row ends in HTTP 404.
C5_ProfileNotFound404 ==
    \A r \in Requests :
        (reqs[r].op = "read_profile" /\ reqs[r].pc = "done" /\ reqs[r].user = 0)
            => reqs[r].status = 404

\* C6: every tweet's author and both ends of every follower edge are
\* existing users, in every committed state.
C6_ReferentialIntegrity == fk_tables_ok(users, tweets, followers)

\* create_tweet for u was received before delete_user(u), ran its INSERT
\* after the deletion was committed and was rejected.
C6_Witness ==
    \E r, q \in Requests :
        /\ r < q
        /\ Finished(r, "create_tweet", 500)
        /\ Finished(q, "delete_user", 200)
        /\ reqs[r].user_id = reqs[q].user_id

\* C7: after a successful delete_user(u) no bio row of u is left.
C7_BiosCleanedUp ==
    \A r \in Requests :
        Finished(r, "delete_user", 200) => reqs[r].user_id \notin bios

\* what C9 says of a state: a create request that returned 200 returned one
\* row carrying its payload and the key its INSERT drew, no two requests
\* returned the same row, keys are unique in their table, and the row of
\* that key in the table is the row returned until a delete_user removes it
C9_Returned ==
    /\ \A s, t \in tweets : s.tweet_id = t.tweet_id => s = t
    /\ \A s, t \in users : s.user_id = t.user_id => s = t
    /\ \A r \in Requests :
         /\ Finished(r, "create_tweet", 200) =>
              \E row \in reqs[r].result :
                /\ reqs[r].result = {row}
                /\ row.tweet_id = reqs[r].user
                /\ row.author_id = reqs[r].user_id
                /\ row.fake_time = reqs[r].fake_time
                /\ \A q \in Requests \ {r} :
                     Finished(q, "create_tweet", 200) => reqs[q].result # {row}
                /\ (\A q \in Requests : ~(Finished(q, "delete_user", 200)
                                          /\ reqs[q].user_id = row.author_id))
                   => { t \in tweets : t.tweet_id = row.tweet_id } = {row}
         /\ Finished(r, "create_user", 200) =>
              \E row \in reqs[r].result :
                /\ reqs[r].result = {row}
                /\ row.user_id = reqs[r].user
                /\ row.user_name = reqs[r].user_name
                /\ row \notin SeedUsers
                /\ \A q \in Requests \ {r} :
                     Finished(q, "create_user", 200) => reqs[q].result # {row}
                /\ (\A q \in Requests : ~(Finished(q, "delete_user", 200)
                                          /\ reqs[q].user_id = row.user_id))
                   => (user_lookup(row.user_id) = {row} /\ read_user_status(row.user_id) = 200)

\* C9: the commit of create_tweet or create_user adds exactly one row, whose
\* identifier no row of the table has, or fails and adds none; the row a
\* successful request returns is that row, with the request's payload, and
\* a fetch by its identifier finds it until a delete_user removes it.
C9_CreateReturnsPersisted ==
    [][ /\ \A r \in Requests :
             /\ (at(r, "create_tweet", "start") /\ reqs'[r] # reqs[r]) =>
                  IF reqs'[r].status = 500
                  THEN tweets' = tweets
                  ELSE \E row \in tweets' \ tweets :
                         /\ tweets' = tweets \cup {row}
                         /\ \A t \in tweets : t.tweet_id # row.tweet_id
                         /\ row.tweet_id = reqs'[r].user
             /\ (at(r, "create_user", "start") /\ reqs'[r] # reqs[r]) =>
                  IF reqs'[r].status = 500
                  THEN users' = users
                  ELSE \E row \in users' \ users :
                         /\ users' = users \cup {row}
                         /\ \A u \in users : u.user_id # row.user_id
                         /\ row.user_id = reqs'[r].user
        /\ C9_Returned'
      ]_vars

\* Two create_tweet requests ran at the same time and both returned.
C9_Witness ==
    \E r, q \in Requests :
        /\ r < q
        /\ Finished(r, "create_tweet", 200)
        /\ Finished(q, "create_tweet", 200)
        /\ \E s \in reqs[r].result, t \in reqs[q].result :
             s.tweet_id > t.tweet_id /\ s \in tweets /\ t \in tweets

\* C10: delete_user for a user_id with no user row ends in 404 with no
\* deletion issued and no table changed.
C10_DeleteMissingUser404 ==
    [][ \A r \in Requests :
          ( /\ at(r, "delete_user", "start")
            /\ user_lookup(reqs[r].user_id) = {}
            /\ reqs'[r] # reqs[r] )
          => /\ reqs'[r].pc = "done"
             /\ reqs'[r].status = 404
             /\ reqs'[r].del_tweets = {} /\ reqs'[r].del_edges = {}
             /\ UNCHANGED tables
      ]_vars

\* A delete_user for an id with no row has returned 404 and the tables still
\* hold the seed rows.
C10_Witness ==
    \E r \in Requests :
        /\ Finished(r, "delete_user", 404)
        /\ reqs[r].user = 0
        /\ users = SeedUsers /\ tweets # {} /\ followers # {} /\ bios # {}

====
